---------------------------- MODULE Spec2Model ----------------------------
(***************************************************************************)
(* DealMonitor: the service + repository layer of the Keyword, Subreddit   *)
(* and Post verticals.                                                     *)
(*                                                                         *)
(* A JavaScript string is a sequence of one-character strings.  A service  *)
(* call is a process that advances from one awaited storage statement to   *)
(* the next; each storage statement is one atomic step on the table.       *)
(* The three verticals share no state (each service owns its repository    *)
(* and its table), so a behaviour follows one vertical, chosen in Init.    *)
(***************************************************************************)
EXTENDS Integers, Sequences, FiniteSets, TLC

VARIABLES
    entity,      \* the vertical of this behaviour: "keyword", "subreddit", "post"
    table,       \* the rows of the vertical's table
    nextId,      \* the AUTOINCREMENT counter of the table
    clock,       \* the time of the last write
    calls,       \* the service calls: process -> call record
    ncalls,      \* number of service calls started
    overlapped,  \* history: some call started while another was in flight
    norm         \* the pure-function harness: input, results of normalization

vars == <<entity, table, nextId, clock, calls, ncalls, overlapped, norm>>

(***************************************************************************)
(* Bounds.                                                                 *)
(***************************************************************************)
MaxLen == 4        \* longest input string of the normalization harness
MaxCalls == 3      \* service calls per behaviour
MaxRowId == 1      \* largest numeric id given to getById/update/delete

\* Service calls in flight at once: two requests are enough for every
\* check-then-write race of the service layer.
Procs == {1, 2}

Entities == {"keyword", "subreddit", "post"}

(***************************************************************************)
(* Strings.                                                                *)
(***************************************************************************)
\* The characters of the harness: whitespace, the letters of the r/ prefix
\* in both cases, the slash, and one other letter.
Alphabet == {" ", "r", "R", "/", "a"}

RECURSIVE StringsOfLen(_)
StringsOfLen(n) ==
    IF n = 0 THEN {<<>>}
    ELSE {Append(s, c) : s \in StringsOfLen(n - 1), c \in Alphabet}

RECURSIVE StringsUpTo(_)
StringsUpTo(n) == IF n = 0 THEN {<<>>} ELSE StringsOfLen(n) \cup StringsUpTo(n - 1)

IsSpace(c) == c = " "

\* String.prototype.trimStart / trimEnd / trim
RECURSIVE trimStart(_)
trimStart(s) ==
    IF s # <<>> /\ IsSpace(Head(s)) THEN trimStart(Tail(s)) ELSE s

RECURSIVE trimEnd(_)
trimEnd(s) ==
    IF s # <<>> /\ IsSpace(s[Len(s)]) THEN trimEnd(SubSeq(s, 1, Len(s) - 1)) ELSE s

trim(s) == trimEnd(trimStart(s))

\* String.prototype.toLowerCase
LowerChar(c) ==
    CASE c = "R" -> "r"
      [] c = "A" -> "a"
      [] c = "B" -> "b"
      [] OTHER -> c

toLowerCase(s) == [i \in 1..Len(s) |-> LowerChar(s[i])]

\* String.prototype.startsWith('r/')
startsWithR(s) == Len(s) >= 2 /\ s[1] = "r" /\ s[2] = "/"

\* String.prototype.replace('r/', ''): removes the first occurrence only
replaceR(s) ==
    LET hits == {i \in 1..(Len(s) - 1) : s[i] = "r" /\ s[i + 1] = "/"}
    IN  IF hits = {} THEN s
        ELSE LET i == CHOOSE j \in hits : \A k \in hits : j <= k
             IN  SubSeq(s, 1, i - 1) \o SubSeq(s, i + 2, Len(s))

(***************************************************************************)
(* Normalization, as each service method computes it.                      *)
(***************************************************************************)
\* KeywordService.createKeyword: value.keyword.trim()
createKeyword_normalize(s) == trim(s)

\* Variant: the case of the name is kept
createSubreddit_normalize_keepsCase(s) ==
    LET normalizedName == trim(s)
    IN  IF startsWithR(normalizedName) THEN replaceR(normalizedName)
        ELSE normalizedName

\* SubredditService.createSubreddit: trim().toLowerCase(), then one r/ off
createSubreddit_normalize(s) ==
    LET normalizedName == toLowerCase(trim(s))
    IN  IF startsWithR(normalizedName) THEN replaceR(normalizedName)
        ELSE normalizedName

\* PostService.createPost: value.title.trim()
createPost_normalize(s) == trim(s)

createNormalize(e, s) ==
    CASE e = "keyword" -> createKeyword_normalize(s)
      [] e = "subreddit" -> createSubreddit_normalize(s)
      [] e = "post" -> createPost_normalize(s)

(***************************************************************************)
(* JavaScript values.                                                      *)
(***************************************************************************)
Undefined == [k |-> "undefined", s |-> <<>>]
NullV == [k |-> "null", s |-> <<>>]
Str(s) == [k |-> "string", s |-> s]

\* JavaScript truthiness of an optional string: undefined, null, '' are falsy
Truthy(v) == v.k = "string" /\ v.s # <<>>

\* An id argument: a number, null, or a string that is no number ('invalid')
NumId(n) == [k |-> "number", n |-> n]
NullId == [k |-> "null", n |-> 0]
BadId == [k |-> "string", n |-> 0]

\* isNaN(parseInt(id))
parseIntIsNaN(id) == id.k # "number"

\* Variant: no id is refused
invalidId_never(id) == FALSE

\* !id || isNaN(parseInt(id))
invalidId(id) == id.k = "null" \/ (id.k = "number" /\ id.n = 0) \/ parseIntIsNaN(id)

\* An optional links array; a link is "u" (a well-formed URI) or "x" (not one)
NoLinks == [k |-> "undefined", l |-> <<>>]
Links(l) == [k |-> "array", l |-> l]
IsUri(link) == link = "u"

\* JSON.stringify of an array of links, as a sequence of tokens
RECURSIVE JSONitems(_)
JSONitems(l) ==
    IF l = <<>> THEN <<>>
    ELSE IF Len(l) = 1 THEN <<l[1]>>
    ELSE <<l[1], ",">> \o JSONitems(Tail(l))

JSONstringify(l) == <<"[">> \o JSONitems(l) \o <<"]">>

(***************************************************************************)
(* Validation schemas (Joi).  A request body is                            *)
(*   [key, description, links]: key is the keyword / name / title field;   *)
(* description and links exist for Post only (undefined elsewhere).        *)
(***************************************************************************)
MaxKeyLen == 500

\* Variant: the schema without min(1)
JoiKeyString_allowsEmpty(v) == v.k = "string" /\ Len(v.s) <= MaxKeyLen

\* Joi.string().min(1).max(500): a string, not '', at most 500 characters.
\* Joi does not trim: a whitespace-only string passes.
JoiKeyString(v) == v.k = "string" /\ Len(v.s) >= 1 /\ Len(v.s) <= MaxKeyLen

\* Joi.string().max(10000).optional().allow(null, '')
JoiDescription(v) == v.k \in {"undefined", "null", "string"}

\* Joi.array().items(Joi.string().uri()).optional()
JoiLinks(ls) == ls.k = "undefined" \/ \A i \in 1..Len(ls.l) : IsUri(ls.l[i])

\* KeywordValidation.create: keyword required
KeywordValidation_create(data) == JoiKeyString(data.key)

\* SubredditValidation.create: name required
SubredditValidation_create(data) == JoiKeyString(data.key)

\* PostValidation.create: title required, description optional, links optional
PostValidation_create(data) ==
    JoiKeyString(data.key) /\ JoiDescription(data.description) /\ JoiLinks(data.links)

ValidCreate(e, data) ==
    CASE e = "keyword" -> KeywordValidation_create(data)
      [] e = "subreddit" -> SubredditValidation_create(data)
      [] e = "post" -> PostValidation_create(data)

\* PostValidation.create gives links the default []
createValue(e, data) ==
    IF e = "post" /\ data.links.k = "undefined"
    THEN [data EXCEPT !.links = Links(<<>>)]
    ELSE data

\* KeywordValidation.update on {id: parseInt(id), ...updateData}
KeywordValidation_update(id, data) ==
    /\ ~parseIntIsNaN(id)
    /\ (data.key.k = "undefined" \/ JoiKeyString(data.key))

\* SubredditValidation.update
SubredditValidation_update(id, data) ==
    /\ ~parseIntIsNaN(id)
    /\ (data.key.k = "undefined" \/ JoiKeyString(data.key))

\* PostValidation.update
PostValidation_update(id, data) ==
    /\ ~parseIntIsNaN(id)
    /\ (data.key.k = "undefined" \/ JoiKeyString(data.key))
    /\ JoiDescription(data.description)
    /\ JoiLinks(data.links)

ValidUpdate(e, id, data) ==
    CASE e = "keyword" -> KeywordValidation_update(id, data)
      [] e = "subreddit" -> SubredditValidation_update(id, data)
      [] e = "post" -> PostValidation_update(id, data)

(***************************************************************************)
(* Entity models.  A model is what the constructor builds from a data      *)
(* object; toDatabase turns it into the column values of a row.            *)
(***************************************************************************)
\* new Keyword(data).keyword: data.keyword || ''
Keyword_keyword(v) == IF Truthy(v) THEN v ELSE Str(<<>>)

\* new Subreddit(data).name: data.name || null
Subreddit_name(v) == IF Truthy(v) THEN v ELSE NullV

\* new Post(data).title: data.title || ''
Post_title(v) == IF Truthy(v) THEN v ELSE Str(<<>>)

\* new Post(data).description: data.description || null
Post_description(v) == IF Truthy(v) THEN v ELSE NullV

ModelKey(e, v) ==
    CASE e = "keyword" -> Keyword_keyword(v)
      [] e = "subreddit" -> Subreddit_name(v)
      [] e = "post" -> Post_title(v)

\* The columns written by an INSERT or UPDATE, from toDatabase() of the
\* model built from `data` (id and created_at are deleted by the repository)
toDatabase(e, data) ==
    IF e = "post"
    THEN [key |-> ModelKey(e, data.key),
          description |-> Post_description(data.description),
          links |-> JSONstringify(data.links.l)]
    ELSE [key |-> ModelKey(e, data.key)]

(***************************************************************************)
(* Storage: the table and its statements.  A row is                        *)
(*   [id, key, created_at, updated_at] (+ description, links for posts);   *)
(* key is the keyword / name / title column, NOT NULL, a plain string.     *)
(***************************************************************************)
\* Variant: no table has a unique index
HasUniqueIndex_none(e) == FALSE

\* table.unique([...]) of the migrations: keywords and subreddits, not posts
HasUniqueIndex(e) == e \in {"keyword", "subreddit"}

\* Variant: a selection by key that matches no row
WhereKey_none(rows, key) == {}

\* .where({ keyword | name | title }): the rows whose key column equals `key`
WhereKey(rows, key) == {r \in rows : r.key = key}

\* .where({ id })
WhereId(rows, id) == {r \in rows : r.id = id}

\* .first(): a row of the selection, or none (a sequence of 0 or 1 rows)
First(sel) == IF sel = {} THEN <<>> ELSE <<CHOOSE r \in sel : \A q \in sel : r.id <= q.id>>

\* The constraints a written row must meet: NOT NULL on the key column and,
\* where the table has one, the unique index
ConstraintViolation(e, rows, cols, selfId) ==
    \/ cols.key.k # "string"
    \/ HasUniqueIndex(e) /\ \E r \in WhereKey(rows, cols.key.s) : r.id # selfId

MakeRow(e, id, cols, created, updated) ==
    IF e = "post"
    THEN [id |-> id, key |-> cols.key.s, description |-> cols.description,
          links |-> cols.links, created_at |-> created, updated_at |-> updated]
    ELSE [id |-> id, key |-> cols.key.s, created_at |-> created, updated_at |-> updated]

\* db(tableName).insert(dataToInsert): the new table, or failure
dbInsert(e, rows, id, cols, now) ==
    IF ConstraintViolation(e, rows, cols, id)
    THEN [ok |-> FALSE, rows |-> rows]
    ELSE [ok |-> TRUE, rows |-> rows \cup {MakeRow(e, id, cols, now, now)}]

\* Variant: the update also rewrites created_at
dbUpdate_resetsCreatedAt(e, rows, id, cols, now) ==
    LET sel == WhereId(rows, id)
    IN  IF sel = {} THEN [ok |-> TRUE, count |-> 0, rows |-> rows]
        ELSE IF ConstraintViolation(e, rows, cols, id)
        THEN [ok |-> FALSE, count |-> 0, rows |-> rows]
        ELSE [ok |-> TRUE, count |-> 1,
              rows |-> (rows \ sel) \cup {MakeRow(e, id, cols, now, now)}]

\* db(tableName).where({id}).update(dataToUpdate): count of rows updated
dbUpdate(e, rows, id, cols, now) ==
    LET sel == WhereId(rows, id)
    IN  IF sel = {} THEN [ok |-> TRUE, count |-> 0, rows |-> rows]
        ELSE IF ConstraintViolation(e, rows, cols, id)
        THEN [ok |-> FALSE, count |-> 0, rows |-> rows]
        ELSE LET old == CHOOSE r \in sel : TRUE
             IN  [ok |-> TRUE, count |-> 1,
                  rows |-> (rows \ sel) \cup {MakeRow(e, id, cols, old.created_at, now)}]

\* Variant: the rows are deleted and a count of 0 is reported
dbDel_reportsNone(rows, id) == [count |-> 0, rows |-> rows \ WhereId(rows, id)]

\* db(tableName).where({id}).del(): count of rows deleted
dbDel(rows, id) == [count |-> Cardinality(WhereId(rows, id)), rows |-> rows \ WhereId(rows, id)]

(***************************************************************************)
(* Repositories.                                                           *)
(***************************************************************************)
\* KeywordRepository.exists(keyword)
KeywordRepository_exists(rows, key) == First(WhereKey(rows, key)) # <<>>

\* Variant: an existence check that never finds the name
SubredditRepository_exists_never(rows, key) == FALSE

\* SubredditRepository.exists(name)
SubredditRepository_exists(rows, key) == First(WhereKey(rows, key)) # <<>>

\* Variant: an existence check that never finds the title
PostRepository_existsByTitle_never(rows, key) == FALSE

\* PostRepository.existsByTitle(title)
PostRepository_existsByTitle(rows, key) == First(WhereKey(rows, key)) # <<>>

exists(e, rows, key) ==
    CASE e = "keyword" -> KeywordRepository_exists(rows, key)
      [] e = "subreddit" -> SubredditRepository_exists(rows, key)
      [] e = "post" -> PostRepository_existsByTitle(rows, key)

\* JSON.parse of the stored links text; Post.parseLinks falls back to
\* splitting at commas when the text is no JSON array
IsJSONArray(text) ==
    /\ Len(text) >= 2 /\ text[1] = "[" /\ text[Len(text)] = "]"
    /\ \A i \in 2..(Len(text) - 1) : (text[i] = ",") <=> (i % 2 = 1)
    /\ (Len(text) > 2 => Len(text) % 2 = 1)

JSONparse(text) == [i \in 1..((Len(text) - 1) \div 2) |-> text[2 * i]]

RECURSIVE splitCommas(_)
splitCommas(text) ==
    IF text = <<>> THEN <<>>
    ELSE IF Head(text) = "," THEN splitCommas(Tail(text))
    ELSE <<Head(text)>> \o splitCommas(Tail(text))

parseLinks(text) == IF IsJSONArray(text) THEN JSONparse(text) ELSE splitCommas(text)

\* Keyword.fromDatabase / Subreddit.fromDatabase / Post.fromDatabase: the
\* model built from a row
fromDatabase(e, row) ==
    IF e = "post"
    THEN [id |-> row.id, key |-> Post_title(Str(row.key)),
          description |-> Post_description(row.description),
          links |-> parseLinks(row.links),
          createdAt |-> row.created_at, updatedAt |-> row.updated_at]
    ELSE [id |-> row.id, key |-> ModelKey(e, Str(row.key)),
          createdAt |-> row.created_at, updatedAt |-> row.updated_at]

\* Variant: findById finds no row
findById_never(e, rows, id) == <<>>

\* findById(id): the model of the row, or null (a sequence of 0 or 1 models)
findById(e, rows, id) ==
    LET sel == First(WhereId(rows, id))
    IN  IF sel = <<>> THEN <<>> ELSE <<fromDatabase(e, sel[1])>>

\* {...existing, ...updateData}: the fields of the patch over those of the
\* model read back from the row
mergePatch(e, existing, patch) ==
    IF e = "post"
    THEN [key |-> IF patch.key.k = "undefined" THEN existing.key ELSE patch.key,
          description |-> IF patch.description.k = "undefined"
                          THEN existing.description ELSE patch.description,
          links |-> IF patch.links.k = "undefined"
                    THEN Links(existing.links) ELSE patch.links]
    ELSE [key |-> IF patch.key.k = "undefined" THEN existing.key ELSE patch.key]

(***************************************************************************)
(* Service calls.                                                          *)
(***************************************************************************)
\* One invocation of a repository method by a service, as a test's mock of
\* the repository would record it
Invoke(op, key, id, data) == [op |-> op, key |-> key, id |-> id, data |-> data]

NoData == [key |-> Undefined, description |-> Undefined, links |-> NoLinks]

IdleCall ==
    [op |-> "none",        \* the service method
     pc |-> "idle",        \* the storage statement awaited, "done" at the end
     id |-> NullId,        \* the id argument
     input |-> NoData,     \* the request body as the caller gave it
     data |-> NoData,      \* the validated value, as the service updates it
     key |-> <<>>,         \* the normalized unique field
     cols |-> <<>>,        \* the columns of the pending INSERT / UPDATE
     rowId |-> 0,          \* the id of the row written
     log |-> <<>>,         \* the repository methods invoked, in order
     outcome |-> "none",   \* "ok" (returned) or the kind of Error thrown
     ret |-> <<>>,         \* the entity returned (none: null / true)
     fault |-> FALSE,      \* a storage statement of the call failed
     before |-> {},        \* the table when the call started
     opts |-> <<>>,        \* the query options as the caller gave them
     text |-> Undefined]   \* the search text or name as the caller gave it

Running(c) == c.pc \notin {"idle", "done"}

\* Variant: the failure is swallowed and the call returns
Throw_swallows(c, kind) == [c EXCEPT !.pc = "done", !.outcome = "ok"]

\* Variant: the failure is recorded but the call never ends
Throw_hangs(c, kind) == [c EXCEPT !.outcome = kind]

\* throw new Error(...): the call ends with a failure of the given kind
Throw(c, kind) == [c EXCEPT !.pc = "done", !.outcome = kind]

\* return entity
Return(c, ret) == [c EXCEPT !.pc = "done", !.outcome = "ok", !.ret = ret]

\* The request bodies tried: the key field absent, empty, whitespace-only,
\* plain, padded upper-case, r/-prefixed, and a second plain value
sA == <<"a">>
sB == <<"b">>
KeyInputs ==
    {Undefined, Str(<<>>), Str(<<" ">>), Str(sA), Str(<<" ", "A">>),
     Str(<<"r", "/", "a">>), Str(sB)}

Bodies(e) ==
    {[key |-> k, description |-> Undefined, links |-> NoLinks] : k \in KeyInputs}
    \cup (IF e = "post"
          THEN {[key |-> Str(sA), description |-> Str(<<" ", "d">>), links |-> Links(<<"u">>)],
                [key |-> Undefined, description |-> Str(<<" ">>), links |-> Links(<<>>)],
                [key |-> Str(sB), description |-> NullV, links |-> Links(<<"x">>)]}
          ELSE {})

IdInputs == {NumId(n) : n \in 0..MaxRowId} \cup {NullId, BadId}

\* A call starts in the first slot that holds no call in flight; it overlaps
\* when another call is in flight
CanStart(p) ==
    /\ ~Running(calls[p])
    /\ \A q \in Procs : q < p => Running(calls[q])
    /\ ncalls < MaxCalls

Begin(p, c) ==
    /\ calls' = [calls EXCEPT ![p] = [c EXCEPT !.before = table]]
    /\ ncalls' = ncalls + 1
    /\ overlapped' = (overlapped \/ \E q \in Procs \ {p} : Running(calls[q]))
    /\ UNCHANGED <<entity, table, nextId, clock, norm>>

\* A step of call p that leaves the table alone
Local(p, c) ==
    /\ calls' = [calls EXCEPT ![p] = c]
    /\ UNCHANGED <<entity, table, nextId, clock, ncalls, overlapped, norm>>

\* value.description?.trim() || value.description (PostService.createPost)
createPost_description(v) ==
    IF v.k = "string" /\ trim(v.s) # <<>> THEN Str(trim(v.s)) ELSE v

\* The object the service hands to repository.create
createData(e, value, normalized) ==
    IF e = "post"
    THEN [key |-> Str(normalized),
          description |-> createPost_description(value.description),
          links |-> value.links]
    ELSE [value EXCEPT !.key = Str(normalized)]

----------------------------------------------------------------------------
(* createKeyword / createSubreddit / createPost *)

\* validate, normalize, and call repository.exists
createStart(p) ==
    /\ CanStart(p)
    /\ \E body \in Bodies(entity) :
         LET c == [IdleCall EXCEPT !.op = "create", !.input = body, !.data = body]
         IN  IF ~ValidCreate(entity, body)
             THEN Begin(p, Throw(c, "Validation"))
             ELSE LET normalized == createNormalize(entity, body.key.s)
                  IN  Begin(p, [c EXCEPT !.data = createValue(entity, body),
                                         !.key = normalized,
                                         !.pc = "create.exists",
                                         !.log = <<Invoke("exists", normalized, 0, <<>>)>>])

\* repository.exists answers; a duplicate is refused, otherwise
\* repository.create builds the row and issues the INSERT
createExists(p) ==
    LET c == calls[p]
    IN  /\ c.pc = "create.exists"
        /\ IF exists(entity, table, c.key)
           THEN Local(p, Throw(c, "Duplicate"))
           ELSE LET data == createData(entity, c.data, c.key)
                IN  Local(p, [c EXCEPT !.pc = "create.insert",
                                       !.cols = <<toDatabase(entity, data)>>,
                                       !.log = Append(c.log, Invoke("create", c.key, 0, <<data>>))])

\* the INSERT runs; on success repository.create reloads the row by id
createInsert(p) ==
    LET c == calls[p]
        res == dbInsert(entity, table, nextId, c.cols[1], clock + 1)
    IN  /\ c.pc = "create.insert"
        /\ IF res.ok
           THEN /\ table' = res.rows
                /\ nextId' = nextId + 1
                /\ clock' = clock + 1
                /\ calls' = [calls EXCEPT ![p] = [c EXCEPT !.pc = "create.reload", !.rowId = nextId]]
                /\ UNCHANGED <<entity, ncalls, overlapped, norm>>
           ELSE Local(p, Throw(c, "Repository"))

\* console.log(`Created subreddit: ${createdSubreddit.name}`) and
\* console.log(`Created Post: ${createdPost.id}`) read a field of the
\* entity; createKeyword logs a plain string
LogsCreatedField(e) == e \in {"subreddit", "post"}

\* findById(id) of repository.create answers and the service returns it
createReload(p) ==
    LET c == calls[p]
    IN  /\ c.pc = "create.reload"
        /\ LET created == findById(entity, table, c.rowId)
           IN  IF created = <<>> /\ LogsCreatedField(entity)
               THEN Local(p, Throw(c, "TypeError"))
               ELSE Local(p, Return(c, created))

----------------------------------------------------------------------------
(* updateKeyword / updateSubreddit / updatePost *)

\* value.keyword.trim() (KeywordService.updateKeyword)
updateKeyword_normalize(s) == trim(s)

\* value.name.trim() (SubredditService.updateSubreddit)
updateSubreddit_normalize(s) == trim(s)

\* value.title.trim() (PostService.updatePost)
updatePost_normalize(s) == trim(s)

updateNormalize(e, s) ==
    CASE e = "keyword" -> updateKeyword_normalize(s)
      [] e = "subreddit" -> updateSubreddit_normalize(s)
      [] e = "post" -> updatePost_normalize(s)

\* Variant: the patch is always taken to change the unique field
keyChanges_always(value, existing) == TRUE

\* Variant: the patch is never taken to change the unique field
keyChanges_never(value, existing) == FALSE

\* value.keyword && value.keyword !== existingKeyword.keyword
keyChanges(value, existing) == Truthy(value.key) /\ value.key # existing.key

\* validate {id: parseInt(id), ...updateData} and call findById
updateStart(p) ==
    /\ CanStart(p)
    /\ \E id \in IdInputs, body \in Bodies(entity) :
         LET c == [IdleCall EXCEPT !.op = "update", !.id = id, !.input = body, !.data = body]
         IN  IF ~ValidUpdate(entity, id, body)
             THEN Begin(p, Throw(c, "Validation"))
             ELSE Begin(p, [c EXCEPT !.pc = "update.findById",
                                     !.log = <<Invoke("findById", <<>>, id.n, <<>>)>>])

\* findById answers: not found, or the duplicate check when the unique
\* field changes, or straight to repository.update
updateFindById(p) ==
    LET c == calls[p]
        existing == findById(entity, table, c.id.n)
    IN  /\ c.pc = "update.findById"
        /\ IF existing = <<>>
           THEN Local(p, Throw(c, "NotFound"))
           ELSE IF keyChanges(c.data, existing[1])
           THEN LET normalized == updateNormalize(entity, c.data.key.s)
                IN  Local(p, [c EXCEPT !.pc = "update.exists",
                                       !.key = normalized,
                                       !.log = Append(c.log, Invoke("exists", normalized, 0, <<>>))])
           ELSE Local(p, [c EXCEPT !.pc = "update.find",
                                   !.log = Append(c.log, Invoke("update", <<>>, c.id.n, <<c.data>>))])

\* repository.exists answers; a duplicate is refused, otherwise the patch
\* takes the normalized value and repository.update is called
updateExists(p) ==
    LET c == calls[p]
    IN  /\ c.pc = "update.exists"
        /\ IF exists(entity, table, c.key)
           THEN Local(p, Throw(c, "Duplicate"))
           ELSE LET value == [c.data EXCEPT !.key = Str(c.key)]
                IN  Local(p, [c EXCEPT !.pc = "update.find",
                                       !.data = value,
                                       !.log = Append(c.log, Invoke("update", <<>>, c.id.n, <<value>>))])

\* repository.update: its own findById answers; null is returned for a
\* missing row, otherwise the merged row is built and the UPDATE issued
updateFind(p) ==
    LET c == calls[p]
        existing == findById(entity, table, c.id.n)
    IN  /\ c.pc = "update.find"
        /\ IF existing = <<>>
           THEN Local(p, Return(c, <<>>))
           ELSE Local(p, [c EXCEPT !.pc = "update.write",
                                   !.cols = <<toDatabase(entity, mergePatch(entity, existing[1], c.data))>>])

\* the UPDATE runs: null when no row was updated, otherwise reload
updateWrite(p) ==
    LET c == calls[p]
        res == dbUpdate(entity, table, c.id.n, c.cols[1], clock + 1)
    IN  /\ c.pc = "update.write"
        /\ IF ~res.ok
           THEN Local(p, Throw(c, "Repository"))
           ELSE IF res.count = 0
           THEN Local(p, Return(c, <<>>))
           ELSE /\ table' = res.rows
                /\ clock' = clock + 1
                /\ calls' = [calls EXCEPT ![p] = [c EXCEPT !.pc = "update.reload", !.rowId = c.id.n]]
                /\ UNCHANGED <<entity, nextId, ncalls, overlapped, norm>>

\* findById(id) of repository.update answers and the service returns it
updateReload(p) ==
    LET c == calls[p]
    IN  /\ c.pc = "update.reload"
        /\ Local(p, Return(c, findById(entity, table, c.id.n)))

----------------------------------------------------------------------------
(* deleteKeyword / deleteSubreddit / deletePost *)

\* check the id and call findById
deleteStart(p) ==
    /\ CanStart(p)
    /\ \E id \in IdInputs :
         LET c == [IdleCall EXCEPT !.op = "delete", !.id = id]
         IN  IF invalidId(id)
             THEN Begin(p, Throw(c, "InvalidId"))
             ELSE Begin(p, [c EXCEPT !.pc = "delete.findById",
                                     !.log = <<Invoke("findById", <<>>, id.n, <<>>)>>])

\* findById answers: not found, or repository.delete is called
deleteFindById(p) ==
    LET c == calls[p]
    IN  /\ c.pc = "delete.findById"
        /\ IF findById(entity, table, c.id.n) = <<>>
           THEN Local(p, Throw(c, "NotFound"))
           ELSE Local(p, [c EXCEPT !.pc = "delete.del",
                                   !.log = Append(c.log, Invoke("delete", <<>>, c.id.n, <<>>))])

\* the DELETE runs: true when a row was removed
deleteDel(p) ==
    LET c == calls[p]
        res == dbDel(table, c.id.n)
    IN  /\ c.pc = "delete.del"
        /\ table' = res.rows
        /\ calls' = [calls EXCEPT ![p] =
                        IF res.count > 0 THEN [Return(c, <<>>) EXCEPT !.rowId = c.id.n]
                        ELSE Throw(c, "DeleteFailed")]
        /\ UNCHANGED <<entity, nextId, clock, ncalls, overlapped, norm>>

----------------------------------------------------------------------------
(* getKeywordById / getSubredditById / getPostById *)

\* check the id and call findById
getByIdStart(p) ==
    /\ CanStart(p)
    /\ \E id \in IdInputs :
         LET c == [IdleCall EXCEPT !.op = "getById", !.id = id]
         IN  IF invalidId(id)
             THEN Begin(p, Throw(c, "InvalidId"))
             ELSE Begin(p, [c EXCEPT !.pc = "getById.findById",
                                     !.log = <<Invoke("findById", <<>>, id.n, <<>>)>>])

\* findById answers: not found, or the entity
getByIdFind(p) ==
    LET c == calls[p]
        found == findById(entity, table, c.id.n)
    IN  /\ c.pc = "getById.findById"
        /\ IF found = <<>>
           THEN Local(p, Throw(c, "NotFound"))
           ELSE Local(p, Return(c, found))

----------------------------------------------------------------------------
\* A storage statement fails (the connection, the disk): the repository
\* wraps the error and the service rethrows it; the statement has no effect
storageFails(p) ==
    /\ Running(calls[p])
    /\ Local(p, [Throw(calls[p], "Repository") EXCEPT !.fault = TRUE])

----------------------------------------------------------------------------
(***************************************************************************)
(* Queries: getAll, search, getSubredditByName.                            *)
(***************************************************************************)
\* A number of the query options, or the option left out
NoNum == [k |-> "undefined", n |-> 0]

\* sortBy, sortOrder or hasLinks left out
Absent == "absent"

NoOptions ==
    [page |-> NoNum, limit |-> NoNum, search |-> Undefined,
     sortBy |-> Absent, sortOrder |-> Absent, hasLinks |-> Absent]

DefaultPage == 1
DefaultLimit == 20
MaxLimit == 100

\* Joi.number().integer().min(1).default(1)
JoiPage(v) == v.k = "undefined" \/ v.n >= 1

\* Joi.number().integer().min(1).max(100).default(20)
JoiLimit(v) == v.k = "undefined" \/ (v.n >= 1 /\ v.n <= MaxLimit)

\* Joi.string().max(n).optional(): Joi.string() refuses ''
JoiSearch(v, n) == v.k = "undefined" \/ (v.k = "string" /\ Len(v.s) >= 1 /\ Len(v.s) <= n)

\* KeywordValidation.query (unknown keys are refused)
KeywordValidation_query(o) ==
    /\ JoiPage(o.page) /\ JoiLimit(o.limit) /\ JoiSearch(o.search, 255)
    /\ o.sortBy \in {Absent, "keyword", "created_at", "updated_at"}
    /\ o.sortOrder \in {Absent, "asc", "desc"}
    /\ o.hasLinks = Absent

\* SubredditValidation.query
SubredditValidation_query(o) ==
    /\ JoiPage(o.page) /\ JoiLimit(o.limit) /\ JoiSearch(o.search, 50)
    /\ o.sortBy \in {Absent, "name", "created_at", "updated_at"}
    /\ o.sortOrder \in {Absent, "asc", "desc"}
    /\ o.hasLinks = Absent

\* PostValidation.query: no sortBy, no sortOrder; hasLinks a boolean
PostValidation_query(o) ==
    /\ JoiPage(o.page) /\ JoiLimit(o.limit) /\ JoiSearch(o.search, 255)
    /\ o.sortBy = Absent /\ o.sortOrder = Absent
    /\ o.hasLinks \in {Absent, "true", "false"}

ValidQuery(e, o) ==
    CASE e = "keyword" -> KeywordValidation_query(o)
      [] e = "subreddit" -> SubredditValidation_query(o)
      [] e = "post" -> PostValidation_query(o)

\* .default(...) of page and limit
pageLimitDefaults(o) ==
    [o EXCEPT !.page = IF o.page.k = "undefined" THEN NumId(DefaultPage) ELSE o.page,
              !.limit = IF o.limit.k = "undefined" THEN NumId(DefaultLimit) ELSE o.limit]

\* The value of KeywordValidation.query.validate(options)
KeywordValidation_queryValue(o) ==
    [pageLimitDefaults(o) EXCEPT
        !.sortBy = IF o.sortBy = Absent THEN "created_at" ELSE o.sortBy,
        !.sortOrder = IF o.sortOrder = Absent THEN "desc" ELSE o.sortOrder]

\* The value of SubredditValidation.query.validate(options)
SubredditValidation_queryValue(o) ==
    [pageLimitDefaults(o) EXCEPT
        !.sortBy = IF o.sortBy = Absent THEN "name" ELSE o.sortBy,
        !.sortOrder = IF o.sortOrder = Absent THEN "asc" ELSE o.sortOrder]

\* The value of PostValidation.query.validate(options)
PostValidation_queryValue(o) == pageLimitDefaults(o)

\* Variant: the options are passed on as given
queryValue_noDefaults(e, o) == o

queryValue(e, o) ==
    CASE e = "keyword" -> KeywordValidation_queryValue(o)
      [] e = "subreddit" -> SubredditValidation_queryValue(o)
      [] e = "post" -> PostValidation_queryValue(o)

\* column LIKE '%pattern%' (SQLite: case-insensitive for ASCII letters)
Like(text, pattern) ==
    \E i \in 0..(Len(text) - Len(pattern)) :
        toLowerCase(SubSeq(text, i + 1, i + Len(pattern))) = toLowerCase(pattern)

\* where('title', 'like', p).orWhere('description', 'like', p); one column
\* for keywords and subreddits
WhereLike(e, rows, pattern) ==
    {r \in rows :
        \/ Like(r.key, pattern)
        \/ e = "post" /\ r.description.k = "string" /\ Like(r.description.s, pattern)}

\* Variant: the links filter keeps every row
whereHasLinks_all(rows, hasLinks) == rows

\* hasLinks === true: whereNot('links', '[]').whereNotNull('links');
\* hasLinks === false: where('links', '[]').orWhereNull('links')
whereHasLinks(rows, hasLinks) ==
    CASE hasLinks = "true" -> {r \in rows : r.links # <<"[", "]">>}
      [] hasLinks = "false" -> {r \in rows : r.links = <<"[", "]">>}
      [] OTHER -> rows

\* The place of a character in the BINARY collation
CharCode(c) ==
    CASE c = " " -> 32 [] c = "/" -> 47 [] c = "A" -> 65 [] c = "R" -> 82
      [] c = "a" -> 97 [] c = "b" -> 98 [] c = "d" -> 100 [] c = "r" -> 114
      [] OTHER -> 120

RECURSIVE StrLess(_, _)
StrLess(a, b) ==
    IF b = <<>> THEN FALSE
    ELSE IF a = <<>> THEN TRUE
    ELSE IF Head(a) # Head(b) THEN CharCode(Head(a)) < CharCode(Head(b))
    ELSE StrLess(Tail(a), Tail(b))

\* orderBy('name', 'asc') for subreddits, orderBy('created_at', 'desc')
\* otherwise; rows that tie come in id order
Precedes(e, r, q) ==
    IF e = "subreddit"
    THEN StrLess(r.key, q.key) \/ (r.key = q.key /\ r.id < q.id)
    ELSE r.created_at > q.created_at \/ (r.created_at = q.created_at /\ r.id < q.id)

RECURSIVE OrderBy(_, _)
OrderBy(e, rows) ==
    IF rows = {} THEN <<>>
    ELSE LET first == CHOOSE r \in rows : \A q \in rows \ {r} : Precedes(e, r, q)
         IN  <<first>> \o OrderBy(e, rows \ {first})

\* Variant: the offset is ignored, every page is the first one
LimitOffset_noOffset(sorted, limit, offset) ==
    SubSeq(sorted, 1, IF limit < Len(sorted) THEN limit ELSE Len(sorted))

\* .limit(limit).offset(offset)
LimitOffset(sorted, limit, offset) ==
    SubSeq(sorted, offset + 1, IF offset + limit < Len(sorted) THEN offset + limit ELSE Len(sorted))

\* Variant: the quotient is rounded down
MathCeil_floor(total, limit) == total \div limit

\* Math.ceil(total / limit)
MathCeil(total, limit) ==
    IF total % limit = 0 THEN total \div limit ELSE (total \div limit) + 1

\* rows.map(row => Model.fromDatabase(row))
MapFromDatabase(e, rows) == [i \in 1..Len(rows) |-> fromDatabase(e, rows[i])]

\* The result of findAll: { page = 1, limit = 20 } = options, then count,
\* order, page
FindAllResult(e, matching, options) ==
    LET page == IF options.page.k = "undefined" THEN DefaultPage ELSE options.page.n
        limit == IF options.limit.k = "undefined" THEN DefaultLimit ELSE options.limit.n
        total == Cardinality(matching)
        offset == (page - 1) * limit
        rows == LimitOffset(OrderBy(e, matching), limit, offset)
    IN  [items |-> MapFromDatabase(e, rows),
         total |-> total,
         page |-> page,
         limit |-> limit,
         pages |-> MathCeil(total, limit)]

\* KeywordRepository.findAll(options)
KeywordRepository_findAll(rows, options) ==
    FindAllResult("keyword",
                  IF Truthy(options.search)
                  THEN WhereLike("keyword", rows, options.search.s) ELSE rows,
                  options)

\* SubredditRepository.findAll(options)
SubredditRepository_findAll(rows, options) ==
    FindAllResult("subreddit",
                  IF Truthy(options.search)
                  THEN WhereLike("subreddit", rows, options.search.s) ELSE rows,
                  options)

\* PostRepository.findAll(options)
PostRepository_findAll(rows, options) ==
    FindAllResult("post",
                  whereHasLinks(IF Truthy(options.search)
                                THEN WhereLike("post", rows, options.search.s) ELSE rows,
                                options.hasLinks),
                  options)

findAll(e, rows, options) ==
    CASE e = "keyword" -> KeywordRepository_findAll(rows, options)
      [] e = "subreddit" -> SubredditRepository_findAll(rows, options)
      [] e = "post" -> PostRepository_findAll(rows, options)

\* KeywordRepository.searchByText(searchText, limit)
KeywordRepository_searchByText(rows, text, limit) ==
    MapFromDatabase("keyword",
        LimitOffset(OrderBy("keyword", WhereLike("keyword", rows, text)), limit, 0))

\* SubredditRepository.searchByName(searchText, limit)
SubredditRepository_searchByName(rows, text, limit) ==
    MapFromDatabase("subreddit",
        LimitOffset(OrderBy("subreddit", WhereLike("subreddit", rows, text)), limit, 0))

\* PostRepository.searchByText(searchText, limit)
PostRepository_searchByText(rows, text, limit) ==
    MapFromDatabase("post",
        LimitOffset(OrderBy("post", WhereLike("post", rows, text)), limit, 0))

search(e, rows, text, limit) ==
    CASE e = "keyword" -> KeywordRepository_searchByText(rows, text, limit)
      [] e = "subreddit" -> SubredditRepository_searchByName(rows, text, limit)
      [] e = "post" -> PostRepository_searchByText(rows, text, limit)

\* SubredditRepository.findByName(name)
SubredditRepository_findByName(rows, name) ==
    LET sel == First(WhereKey(rows, name))
    IN  IF sel = <<>> THEN <<>> ELSE <<fromDatabase("subreddit", sel[1])>>

\* The query options tried: pages and limits within and beyond the data,
\* out-of-range values, a search text, the links filter, sort fields
OptionInputs ==
    {[NoOptions EXCEPT !.page = pg, !.limit = lm] :
        pg \in {NoNum, NumId(1), NumId(2), NumId(3)}, lm \in {NoNum, NumId(1), NumId(2)}}
    \cup {[NoOptions EXCEPT !.page = NumId(0)],
          [NoOptions EXCEPT !.limit = NumId(0)],
          [NoOptions EXCEPT !.limit = NumId(MaxLimit)],
          [NoOptions EXCEPT !.limit = NumId(MaxLimit + 1)]}
    \cup {[NoOptions EXCEPT !.search = s, !.page = pg, !.limit = NumId(1)] :
        s \in {Str(<<"A">>), Str(<<>>)}, pg \in {NumId(1), NumId(2)}}
    \cup {[NoOptions EXCEPT !.hasLinks = h, !.page = pg, !.limit = NumId(1)] :
        h \in {"true", "false"}, pg \in {NumId(1), NumId(2)}}
    \cup {[NoOptions EXCEPT !.sortBy = "name", !.sortOrder = "desc"],
          [NoOptions EXCEPT !.sortBy = "created_at"]}

\* getAllKeywords / getAllSubreddits / getAllPosts: validate the options and
\* call repository.findAll with the validated value
getAllStart(p) ==
    /\ CanStart(p)
    /\ \E o \in OptionInputs :
         LET c == [IdleCall EXCEPT !.op = "getAll", !.opts = o]
         IN  IF ~ValidQuery(entity, o)
             THEN Begin(p, Throw(c, "Validation"))
             ELSE Begin(p, [c EXCEPT !.pc = "getAll.findAll",
                                     !.log = <<Invoke("findAll", <<>>, 0,
                                                      <<queryValue(entity, o)>>)>>])

\* findAll answers and the service returns its result
getAllFind(p) ==
    LET c == calls[p]
    IN  /\ c.pc = "getAll.findAll"
        /\ Local(p, Return(c, <<findAll(entity, table, c.log[1].data[1])>>))

\* The texts tried for a search or a name: missing, empty, blank, plain,
\* padded upper case, with the prefix, the prefix alone, r/ inside
TextInputs ==
    {Undefined, Str(<<>>), Str(<<" ">>), Str(sA), Str(<<" ", "A">>),
     Str(<<"r", "/", "a">>), Str(<<"r", "/">>), Str(<<"a", "r", "/">>)}

\* Variant: only a missing or empty text is refused
searchTextMissing_onlyEmpty(text) == ~Truthy(text)

\* !searchText || searchText.trim().length === 0
searchTextMissing(text) == ~Truthy(text) \/ trim(text.s) = <<>>

\* searchKeywords: searchText.trim()
searchKeywords_normalize(s) == trim(s)

\* searchSubreddits: searchText.trim().toLowerCase().replace('r/', '')
searchSubreddits_normalize(s) == replaceR(toLowerCase(trim(s)))

\* searchPosts: searchText.trim()
searchPosts_normalize(s) == trim(s)

searchNormalize(e, s) ==
    CASE e = "keyword" -> searchKeywords_normalize(s)
      [] e = "subreddit" -> searchSubreddits_normalize(s)
      [] e = "post" -> searchPosts_normalize(s)

\* limit = 50 (searchSubreddits), limit = 20 (searchKeywords, searchPosts)
searchDefaultLimit(e) == IF e = "subreddit" THEN 50 ELSE 20

\* searchKeywords / searchSubreddits / searchPosts: searchSubreddits
\* normalizes the text before it checks that there is one
searchStart(p) ==
    /\ CanStart(p)
    /\ \E text \in TextInputs :
         LET c == [IdleCall EXCEPT !.op = "search", !.text = text]
         IN  IF entity = "subreddit" /\ text.k # "string"
             THEN Begin(p, Throw(c, "TypeError"))
             ELSE IF searchTextMissing(text)
             THEN Begin(p, Throw(c, "SearchRequired"))
             ELSE LET normalized == searchNormalize(entity, text.s)
                  IN  Begin(p, [c EXCEPT !.pc = "search.find",
                                         !.key = normalized,
                                         !.log = <<Invoke("search", normalized,
                                                          searchDefaultLimit(entity), <<>>)>>])

\* the repository search answers and the service returns the entities
searchFind(p) ==
    LET c == calls[p]
    IN  /\ c.pc = "search.find"
        /\ Local(p, Return(c, <<[items |-> search(entity, table, c.key, c.log[1].id)]>>))

\* getSubredditByName: name.trim().toLowerCase(), one leading r/ off
getSubredditByName_normalize(s) ==
    LET normalizedName == toLowerCase(trim(s))
    IN  IF startsWithR(normalizedName) THEN replaceR(normalizedName)
        ELSE normalizedName

\* getSubredditByName: normalize, refuse an empty name, call findByName
getByNameStart(p) ==
    /\ entity = "subreddit"
    /\ CanStart(p)
    /\ \E text \in TextInputs :
         LET c == [IdleCall EXCEPT !.op = "getByName", !.text = text]
         IN  IF text.k # "string"
             THEN Begin(p, Throw(c, "TypeError"))
             ELSE LET normalized == getSubredditByName_normalize(text.s)
                  IN  IF normalized = <<>>
                      THEN Begin(p, Throw(c, "InvalidName"))
                      ELSE Begin(p, [c EXCEPT !.pc = "getByName.find",
                                              !.key = normalized,
                                              !.log = <<Invoke("findByName", normalized, 0, <<>>)>>])

\* findByName answers: not found, or the entity
getByNameFind(p) ==
    LET c == calls[p]
        found == SubredditRepository_findByName(table, c.key)
    IN  /\ c.pc = "getByName.find"
        /\ IF found = <<>>
           THEN Local(p, Throw(c, "NotFound"))
           ELSE Local(p, Return(c, found))

----------------------------------------------------------------------------
(* The normalization harness: a string, normalized once and twice *)

NormOff == [stage |-> "off", input |-> <<>>, once |-> <<>>, twice |-> <<>>]

normalizeOnce ==
    /\ norm.stage = "input"
    /\ norm' = [norm EXCEPT !.stage = "once", !.once = createNormalize(entity, norm.input)]
    /\ UNCHANGED <<entity, table, nextId, clock, calls, ncalls, overlapped>>

normalizeTwice ==
    /\ norm.stage = "once"
    /\ norm' = [norm EXCEPT !.stage = "twice", !.twice = createNormalize(entity, norm.once)]
    /\ UNCHANGED <<entity, table, nextId, clock, calls, ncalls, overlapped>>

----------------------------------------------------------------------------
(* Specifications *)

InitService ==
    /\ entity \in Entities
    /\ table = {}
    /\ nextId = 1
    /\ clock = 0
    /\ calls = [p \in Procs |-> IdleCall]
    /\ ncalls = 0
    /\ overlapped = FALSE

Init == InitService /\ norm = NormOff

Step(p) ==
    \/ createStart(p) \/ createExists(p) \/ createInsert(p) \/ createReload(p)
    \/ updateStart(p) \/ updateFindById(p) \/ updateExists(p) \/ updateFind(p)
    \/ updateWrite(p) \/ updateReload(p)
    \/ deleteStart(p) \/ deleteFindById(p) \/ deleteDel(p)
    \/ getByIdStart(p) \/ getByIdFind(p)
    \/ storageFails(p)

\* Requests handled concurrently by the runtime
Next == \E p \in Procs : Step(p)

Spec == Init /\ [][Next]_vars

\* Requests handled one at a time
NextSeq == Step(1)

SpecSeq == Init /\ [][NextSeq]_vars

\* Writes and queries, one call at a time
StepQuery(p) ==
    \/ createStart(p) \/ createExists(p) \/ createInsert(p) \/ createReload(p)
    \/ updateStart(p) \/ updateFindById(p) \/ updateExists(p) \/ updateFind(p)
    \/ updateWrite(p) \/ updateReload(p)
    \/ getAllStart(p) \/ getAllFind(p)
    \/ searchStart(p) \/ searchFind(p)
    \/ getByNameStart(p) \/ getByNameFind(p)
    \/ storageFails(p)

NextQuery == StepQuery(1)

SpecQuery == Init /\ [][NextQuery]_vars

\* Every service method, one call at a time; a storage statement awaited
\* completes or fails, and the call then goes on to its next statement
StepLive(p) ==
    \/ createStart(p) \/ createExists(p) \/ createInsert(p) \/ createReload(p)
    \/ updateStart(p) \/ updateFindById(p) \/ updateExists(p) \/ updateFind(p)
    \/ updateWrite(p) \/ updateReload(p)
    \/ deleteStart(p) \/ deleteFindById(p) \/ deleteDel(p)
    \/ getByIdStart(p) \/ getByIdFind(p)
    \/ getAllStart(p) \/ getAllFind(p)
    \/ searchStart(p) \/ searchFind(p)
    \/ getByNameStart(p) \/ getByNameFind(p)
    \/ storageFails(p)

NextLive == StepLive(1)

SpecLive == Init /\ [][NextLive]_vars /\ WF_vars(NextLive)

\* The normalization functions on every string up to MaxLen
InitNorm ==
    /\ InitService
    /\ \E s \in StringsUpTo(MaxLen) : norm = [NormOff EXCEPT !.stage = "input", !.input = s]

NextNorm == normalizeOnce \/ normalizeTwice

SpecNorm == InitNorm /\ [][NextNorm]_vars

----------------------------------------------------------------------------
(***************************************************************************)
(* The normal forms the specification names, written from its words.       *)
(***************************************************************************)
\* s without its leading and trailing whitespace
TrimmedForm(s) ==
    LET solid == {i \in 1..Len(s) : s[i] # " "}
    IN  IF solid = {} THEN <<>>
        ELSE SubSeq(s, CHOOSE i \in solid : \A j \in solid : i <= j,
                       CHOOSE i \in solid : \A j \in solid : i >= j)

\* s with every upper-case letter replaced by its lower-case letter
LowercasedForm(s) ==
    [i \in 1..Len(s) |->
        IF s[i] = "A" THEN "a" ELSE IF s[i] = "B" THEN "b"
        ELSE IF s[i] = "R" THEN "r" ELSE s[i]]

\* s without a leading r/
PrefixStrippedForm(s) ==
    IF Len(s) >= 2 /\ SubSeq(s, 1, 2) = <<"r", "/">> THEN SubSeq(s, 3, Len(s)) ELSE s

\* trimmed, lowercased, leading r/ stripped
SubredditForm(s) == PrefixStrippedForm(LowercasedForm(TrimmedForm(s)))

NormalForm(e, s) == IF e = "subreddit" THEN SubredditForm(s) ELSE TrimmedForm(s)

\* The repository methods a call invoked
Invoked(c, op) == \E i \in 1..Len(c.log) : c.log[i].op = op

\* A finished call of the given service method
Done(c, op) == c.pc = "done" /\ c.op = op

HasRow(rows, id) == \E r \in rows : r.id = id

----------------------------------------------------------------------------
\* C1: after any sequence of createSubreddit, updateSubreddit and
\* deleteSubreddit calls executed one at a time from an empty table, no two
\* Subreddit rows have names that normalize (trim, lowercase, strip a
\* leading r/) to the same value.
C1_SubredditNormalizedNamesUnique ==
    entity = "subreddit" =>
        \A r1, r2 \in table :
            r1.id # r2.id => SubredditForm(r1.key) # SubredditForm(r2.key)

----------------------------------------------------------------------------
\* C2, as claimed: in every reachable state, whether createPost and
\* updatePost calls run one at a time or interleave at their repository
\* calls, no two Post rows share the same trimmed title.
C2_PostTitlesUniqueInterleaved ==
    entity = "post" =>
        \A r1, r2 \in table :
            r1.id # r2.id => TrimmedForm(r1.key) # TrimmedForm(r2.key)

\* C2, amended: as long as createPost and updatePost calls have run one at
\* a time (no call started while another was in flight), no two Post rows
\* share the same trimmed title.
C2_PostTitlesUniqueSequential ==
    (entity = "post" /\ ~overlapped) =>
        \A r1, r2 \in table :
            r1.id # r2.id => TrimmedForm(r1.key) # TrimmedForm(r2.key)

\* Two posts are stored, calls ran one at a time, and a createPost or
\* updatePost was just refused as a duplicate.
C2_Witness ==
    /\ entity = "post" /\ ~overlapped
    /\ Cardinality(table) = 2
    /\ calls[1].pc = "done" /\ calls[1].op \in {"create", "update"}
    /\ calls[1].outcome = "Duplicate"

----------------------------------------------------------------------------
\* C3: after any sequence of createKeyword, updateKeyword and deleteKeyword
\* calls executed one at a time from an empty table, no two Keyword rows
\* share the same keyword value.
C3_KeywordValuesUnique ==
    entity = "keyword" =>
        \A r1, r2 \in table : r1.id # r2.id => r1.key # r2.key

\* Two keywords are stored and an updateKeyword that changed a keyword has
\* just returned.
C3_Witness ==
    /\ entity = "keyword"
    /\ Cardinality(table) = 2
    /\ Done(calls[1], "update") /\ calls[1].outcome = "ok"
    /\ Invoked(calls[1], "exists")

----------------------------------------------------------------------------
\* C4: for every create call that succeeds, the unique field passed to the
\* repository's existence check and to the repository's create, and carried
\* by the returned entity, equals the trimmed form of the input (for
\* Subreddit: trimmed, lowercased, leading r/ stripped), never the raw input
\* when the two differ.
C4_CreateUsesNormalForm ==
    \A p \in Procs :
        LET c == calls[p]
            form == NormalForm(entity, c.input.key.s)
        IN  (Done(c, "create") /\ c.outcome = "ok") =>
                /\ Len(c.log) = 2
                /\ c.log[1].op = "exists" /\ c.log[1].key = form
                /\ c.log[2].op = "create" /\ c.log[2].data[1].key = Str(form)
                /\ c.ret # <<>> /\ c.ret[1].key = Str(form)

\* A create succeeded on an input that differs from its normal form.
C4_Witness ==
    /\ Done(calls[1], "create") /\ calls[1].outcome = "ok"
    /\ calls[1].input.key.s # NormalForm(entity, calls[1].input.key.s)
    /\ calls[1].ret # <<>>

----------------------------------------------------------------------------
\* C5: after every successful createSubreddit or updateSubreddit call that
\* supplies a name, the name stored in the affected row equals the trimmed,
\* lowercased, leading-r/-stripped form of the supplied name.
C5_SubredditStoredNameNormalized ==
    \A p \in Procs :
        LET c == calls[p]
        IN  (/\ entity = "subreddit"
             /\ c.pc = "done" /\ c.op \in {"create", "update"}
             /\ c.outcome = "ok"
             /\ c.input.key.k = "string") =>
                \E r \in table :
                    r.id = c.rowId /\ r.key = SubredditForm(c.input.key.s)

----------------------------------------------------------------------------
\* C6: normalization is idempotent: the Subreddit normalization of
\* createSubreddit applied to a value that is already an output of that
\* normalization returns the same value; the same holds for the trim-only
\* normalization of Keyword and Post.
C6_NormalizationIdempotent ==
    norm.stage = "twice" => norm.twice = norm.once

----------------------------------------------------------------------------
\* C7: when a create call's normalized unique key is already present in the
\* table (the repository existence check returns true), the call fails with
\* a duplicate error and the repository's create is never invoked, so the
\* table is unchanged.
C7_DuplicateCreateRefused ==
    \A p \in Procs :
        LET c == calls[p]
        IN  (/\ Done(c, "create")
             /\ c.outcome # "Validation" /\ ~c.fault
             /\ \E r \in c.before : r.key = NormalForm(entity, c.input.key.s)) =>
                /\ c.outcome = "Duplicate"
                /\ ~Invoked(c, "create")
                /\ table = c.before

\* A create was refused as a duplicate of a stored row.
C7_Witness ==
    /\ Done(calls[1], "create") /\ calls[1].outcome = "Duplicate"
    /\ \E r \in calls[1].before : r.key = NormalForm(entity, calls[1].input.key.s)
    /\ calls[1].input.key.s # NormalForm(entity, calls[1].input.key.s)

----------------------------------------------------------------------------
\* The bodies the create schemas reject: the unique text field missing or
\* empty, or (Post) a link that is no URI
FailsCreateSchema(e, body) ==
    \/ body.key.k # "string"
    \/ body.key.s = <<>>
    \/ e = "post" /\ \E i \in 1..Len(body.links.l) : body.links.l[i] # "u"

\* C8: a create call whose input fails schema validation (for example an
\* empty unique text field) fails with a validation error before any
\* repository operation: neither the existence check nor create is invoked.
C8_InvalidCreateTouchesNoRepository ==
    \A p \in Procs :
        LET c == calls[p]
        IN  (Done(c, "create") /\ FailsCreateSchema(entity, c.input)) =>
                /\ c.outcome = "Validation"
                /\ c.log = <<>>
                /\ table = c.before

\* A create with an empty unique field was refused while rows were stored.
C8_Witness ==
    /\ Done(calls[1], "create") /\ calls[1].outcome = "Validation"
    /\ calls[1].input.key = Str(<<>>)
    /\ table # {}

----------------------------------------------------------------------------
\* C9: for every entity, getById, update and delete called with a numeric
\* id that has no row fail with a not-found error; for update neither the
\* existence check nor the repository update is invoked, and for delete the
\* repository delete is not invoked, so the table is unchanged.
C9_MissingIdIsNotFound ==
    \A p \in Procs :
        LET c == calls[p]
        IN  (/\ c.pc = "done" /\ c.op \in {"getById", "update", "delete"}
             /\ c.id.k = "number" /\ ~HasRow(c.before, c.id.n)
             /\ c.outcome # "Validation" /\ ~c.fault) =>
                /\ c.outcome = "NotFound"
                /\ ~Invoked(c, "exists") /\ ~Invoked(c, "update")
                /\ ~Invoked(c, "delete")
                /\ table = c.before

----------------------------------------------------------------------------
\* C10: an update call whose patch sets the unique field to a value that
\* already belongs to another row fails with a duplicate error and the
\* repository's update is never invoked, so both rows keep their previous
\* values.
C10_UpdateToTakenValueRefused ==
    \A p \in Procs :
        LET c == calls[p]
        IN  (/\ Done(c, "update")
             /\ c.outcome # "Validation" /\ ~c.fault
             /\ c.id.k = "number" /\ HasRow(c.before, c.id.n)
             /\ c.input.key.k = "string"
             /\ \E r \in c.before :
                    /\ r.id # c.id.n
                    /\ r.key \in {c.input.key.s, TrimmedForm(c.input.key.s)}) =>
                /\ c.outcome = "Duplicate"
                /\ ~Invoked(c, "update")
                /\ table = c.before

\* An update to the padded form of another row's value was refused.
C10_Witness ==
    /\ Done(calls[1], "update") /\ calls[1].outcome = "Duplicate"
    /\ calls[1].input.key.s # TrimmedForm(calls[1].input.key.s)
    /\ \E r \in calls[1].before :
           r.id # calls[1].id.n /\ r.key = TrimmedForm(calls[1].input.key.s)


----------------------------------------------------------------------------
\* C11: in an update call for an existing id, when the patch omits the
\* unique field or gives it a value equal to the value currently stored for
\* that row, the repository existence check is not invoked and the
\* repository update is invoked exactly once with the patch.
C11_UnchangedKeySkipsExistenceCheck ==
    \A p \in Procs :
        LET c == calls[p]
        IN  (/\ Done(c, "update")
             /\ c.outcome # "Validation" /\ ~c.fault
             /\ c.id.k = "number"
             /\ \E r \in c.before :
                    /\ r.id = c.id.n
                    /\ c.input.key.k = "undefined" \/ c.input.key = Str(r.key)) =>
                /\ ~Invoked(c, "exists")
                /\ Cardinality({i \in 1..Len(c.log) : c.log[i].op = "update"}) = 1
                /\ \E i \in 1..Len(c.log) :
                       /\ c.log[i].op = "update"
                       /\ c.log[i].id = c.id.n
                       /\ c.log[i].data = <<c.input>>

\* An update whose patch repeats the stored value has returned the row.
C11_Witness ==
    /\ Done(calls[1], "update") /\ calls[1].outcome = "ok"
    /\ calls[1].input.key.k = "string"
    /\ \E r \in calls[1].before : r.id = calls[1].id.n /\ Str(r.key) = calls[1].input.key
    /\ calls[1].ret # <<>>

----------------------------------------------------------------------------
----------------------------------------------------------------------------
----------------------------------------------------------------------------
\* C17: an update service call never completes by returning null: whenever
\* the repository update returns null (the row is absent or zero rows were
\* affected), the service call fails with a not-found error.
C17_UpdateNeverReturnsNull ==
    \A p \in Procs :
        (Done(calls[p], "update") /\ calls[p].outcome = "ok") => calls[p].ret # <<>>

----------------------------------------------------------------------------
\* C18: within any single service call, each mutating repository operation
\* (insert, update, delete) is invoked at most once, and when any repository
\* operation fails the service call ends with that same failure, making no
\* further repository call and never reporting success.
C18_NoRetryFailureSurfaces ==
    /\ [](\A p \in Procs :
            LET c == calls[p]
            IN  /\ \A op \in {"create", "update", "delete"} :
                       Cardinality({i \in 1..Len(c.log) : c.log[i].op = op}) <= 1
                /\ c.fault => (c.pc = "done" /\ c.outcome = "Repository" /\ c.ret = <<>>))
    /\ [][\A p \in Procs :
            (calls[p].fault /\ ncalls' = ncalls) => calls'[p] = calls[p]]_vars

\* A storage statement failed after the call had invoked two repository
\* methods and written nothing.
C18_Witness ==
    \E p \in Procs :
        /\ calls[p].fault /\ calls[p].pc = "done"
        /\ Len(calls[p].log) >= 2
        /\ table # {}


----------------------------------------------------------------------------
\* The rows a query's filter selects, from the words of the specification:
\* the search text occurs in the key (or, for a post, the description)
\* without regard to case, and the links filter goes by the links sequence
MatchingRows(e, rows, o) ==
    {r \in rows :
        /\ o.search.k = "string" =>
               \/ Like(r.key, o.search.s)
               \/ e = "post" /\ r.description.k = "string" /\ Like(r.description.s, o.search.s)
        /\ o.hasLinks = "true" => parseLinks(r.links) # <<>>
        /\ o.hasLinks = "false" => parseLinks(r.links) = <<>>}

\* C12: for every findAll result with valid page >= 1 and limit in 1..100,
\* pages equals ceil(total / limit); and when (page - 1) * limit is at least
\* the number of matching rows, the item sequence is empty while total still
\* equals the number of matching rows.
C12_PaginationLaw ==
    \A p \in Procs :
        LET c == calls[p]
        IN  (Done(c, "getAll") /\ c.outcome = "ok") =>
                LET res == c.ret[1]
                    o == c.log[1].data[1]
                    n == Cardinality(MatchingRows(entity, table, o))
                IN  /\ o.page.n >= 1 /\ o.limit.n \in 1..MaxLimit
                    /\ res.pages * o.limit.n >= res.total
                    /\ (res.pages - 1) * o.limit.n < res.total
                    /\ (o.page.n - 1) * o.limit.n >= n =>
                           (res.items = <<>> /\ res.total = n)

\* A page beyond two pages of data was asked for and came back empty.
C12_Witness ==
    /\ Done(calls[1], "getAll") /\ calls[1].outcome = "ok"
    /\ calls[1].ret[1].total = 2 /\ calls[1].ret[1].pages = 2
    /\ calls[1].opts.page = NumId(3)
    /\ calls[1].ret[1].items = <<>>

----------------------------------------------------------------------------
\* C13: searchKeywords, searchSubreddits and searchPosts called with an
\* empty or whitespace-only search text fail with a 'Search text is
\* required' error and never invoke the repository search.
C13_BlankSearchRefused ==
    \A p \in Procs :
        LET c == calls[p]
        IN  (/\ Done(c, "search")
             /\ c.text.k = "string" /\ TrimmedForm(c.text.s) = <<>>) =>
                /\ c.outcome = "SearchRequired"
                /\ c.log = <<>>

\* A whitespace-only search was refused while rows were stored.
C13_Witness ==
    /\ Done(calls[1], "search") /\ calls[1].text = Str(<<" ">>)
    /\ calls[1].outcome = "SearchRequired"
    /\ table # {}

----------------------------------------------------------------------------
\* C14: for any table contents produced by createPost/updatePost,
\* getAllPosts with hasLinks = true returns only posts whose links sequence
\* is non-empty, and with hasLinks = false returns only posts whose links
\* sequence is empty or absent; every post falls in exactly one of the two
\* filters.
C14_HasLinksFilterPartitions ==
    entity = "post" =>
        /\ \A r \in table :
               (r \in whereHasLinks(table, "true")) # (r \in whereHasLinks(table, "false"))
        /\ \A p \in Procs :
               LET c == calls[p]
               IN  (Done(c, "getAll") /\ c.outcome = "ok" /\ c.opts.hasLinks # Absent) =>
                       LET res == c.ret[1]
                       IN  /\ \A i \in 1..Len(res.items) :
                                  (c.opts.hasLinks = "true") <=> (res.items[i].links # <<>>)
                           /\ res.total =
                                  Cardinality({r \in table :
                                      (c.opts.hasLinks = "true") <=> (parseLinks(r.links) # <<>>)})

\* With one post that has links and one that has none stored, the filter
\* for posts with links returned a post.
C14_Witness ==
    /\ entity = "post"
    /\ Done(calls[1], "getAll") /\ calls[1].outcome = "ok"
    /\ calls[1].opts.hasLinks = "true"
    /\ Len(calls[1].ret[1].items) = 1
    /\ Cardinality(table) = 2

----------------------------------------------------------------------------
\* C19: for every input string, the name that getSubredditByName passes to
\* the repository's findByName and the text that searchSubreddits passes to
\* the repository's searchByName are the same value that createSubreddit
\* would store for that input (trimmed, lowercased, with only a leading r/
\* stripped).
C19_LookupsNormalizeAsCreate ==
    \A p \in Procs :
        LET c == calls[p]
        IN  (/\ entity = "subreddit"
             /\ c.op \in {"search", "getByName"}
             /\ c.log # <<>>) =>
                /\ c.log[1].key = createSubreddit_normalize(c.text.s)
                /\ c.log[1].key = SubredditForm(c.text.s)

----------------------------------------------------------------------------
\* The defaults the claim names for the sort fields
ClaimedSortDefaults(e) ==
    CASE e = "keyword" -> [sortBy |-> "created_at", sortOrder |-> "desc"]
      [] e = "subreddit" -> [sortBy |-> "name", sortOrder |-> "asc"]
      [] e = "post" -> [sortBy |-> "created_at", sortOrder |-> "desc"]

\* The defaults of the query schemas: the Post schema has no sort fields
SchemaSortDefaults(e) ==
    IF e = "post" THEN [sortBy |-> Absent, sortOrder |-> Absent]
    ELSE ClaimedSortDefaults(e)

\* findAll was invoked exactly once, with the options given and the
\* defaults d for those left out
FindAllOnceWith(c, d) ==
    /\ Cardinality({i \in 1..Len(c.log) : c.log[i].op = "findAll"}) = 1
    /\ Len(c.log) = 1
    /\ LET o == c.log[1].data[1]
       IN  /\ o.page = (IF c.opts.page.k = "undefined" THEN NumId(1) ELSE c.opts.page)
           /\ o.limit = (IF c.opts.limit.k = "undefined" THEN NumId(20) ELSE c.opts.limit)
           /\ o.sortBy = (IF c.opts.sortBy = Absent THEN d.sortBy ELSE c.opts.sortBy)
           /\ o.sortOrder = (IF c.opts.sortOrder = Absent THEN d.sortOrder ELSE c.opts.sortOrder)
           /\ o.search = c.opts.search
           /\ o.hasLinks = c.opts.hasLinks

----------------------------------------------------------------------------
\* C21: every Keyword row and every Post row written by a successful create
\* or update service call holds a keyword/title that has no leading or
\* trailing whitespace and is between 1 and 500 characters long, for every
\* input the validation schema accepts (including inputs made only of
\* whitespace).
C21_StoredKeyTrimmedAndNonEmpty ==
    \A p \in Procs :
        LET c == calls[p]
        IN  (/\ entity \in {"keyword", "post"}
             /\ c.pc = "done" /\ c.op \in {"create", "update"}
             /\ c.outcome = "ok") =>
                \A r \in table :
                    r.id = c.rowId =>
                        /\ r.key = TrimmedForm(r.key)
                        /\ Len(r.key) >= 1 /\ Len(r.key) <= 500

----------------------------------------------------------------------------
\* C22: every non-null description stored by a successful createPost or
\* updatePost call has no leading or trailing whitespace.
C22_StoredDescriptionTrimmed ==
    \A p \in Procs :
        LET c == calls[p]
        IN  (/\ entity = "post"
             /\ c.pc = "done" /\ c.op \in {"create", "update"}
             /\ c.outcome = "ok") =>
                \A r \in table :
                    (r.id = c.rowId /\ r.description.k = "string") =>
                        r.description.s = TrimmedForm(r.description.s)

----------------------------------------------------------------------------
\* C29: for every search text accepted by searchKeywords, searchSubreddits
\* or searchPosts, the text actually passed to the repository search is
\* non-empty, so a service search never degenerates into a match-everything
\* LIKE '%%' query (including for Subreddit inputs such as 'r/' whose
\* normalized form is empty).
C29_SearchTextPassedNonEmpty ==
    \A p \in Procs :
        LET c == calls[p]
        IN  (c.op = "search" /\ Invoked(c, "search")) => c.log[1].key # <<>>

----------------------------------------------------------------------------
\* C30: an update call never fails with a duplicate error because of the row
\* being updated itself: when the patch's unique-field value normalizes to
\* the value already stored in that same row (differing from it only by
\* surrounding whitespace, or for Subreddit by case or an r/ prefix) and no
\* other row holds that value, the update succeeds.
C30_UpdateToOwnValueSucceeds ==
    \A p \in Procs :
        LET c == calls[p]
        IN  (/\ Done(c, "update")
             /\ c.outcome # "Validation" /\ ~c.fault
             /\ c.id.k = "number" /\ c.input.key.k = "string"
             /\ \E r \in c.before :
                    /\ r.id = c.id.n
                    /\ r.key = NormalForm(entity, c.input.key.s)
             /\ \A r \in c.before :
                    r.id # c.id.n => r.key # NormalForm(entity, c.input.key.s)) =>
                c.outcome = "ok"


----------------------------------------------------------------------------
\* The UPDATE statement of call p has just run on the row `id` with the
\* patch the service gave to repository.update: the row keeps its id and
\* created_at, takes a new updated_at, keeps every field the patch does not
\* mention, and the other rows are as they were
UpdateFrame(p) ==
    LET id == calls[p].id.n
        patch == calls[p].data
    IN  /\ \A r \in table : r.id # id => r \in table'
        /\ \A r \in table' : r.id # id => r \in table
        /\ Cardinality({r \in table' : r.id = id}) = 1
        /\ \E old \in table, new \in table' :
               /\ old.id = id /\ new.id = id
               /\ new.created_at = old.created_at
               /\ new.updated_at > old.updated_at
               /\ patch.key.k = "undefined" => new.key = old.key
               /\ (entity = "post" /\ patch.description.k = "undefined") =>
                      new.description = old.description
               /\ (entity = "post" /\ patch.links.k = "undefined") =>
                      new.links = old.links

\* C23, as claimed: a repository update of row id never changes that row's
\* id or created_at, sets its updated_at, keeps every field the patch does
\* not mention at its previous value, and leaves every other row of the
\* table unchanged.
C23_UpdateFrameAlways ==
    [][\A p \in Procs :
         (calls[p].pc = "update.write" /\ calls'[p].pc = "update.reload") =>
             UpdateFrame(p)]_vars

\* C23, amended: as long as calls have run one at a time, a repository
\* update of row id does not change that row's id or created_at, sets its
\* updated_at, keeps every field the patch does not mention at its previous
\* value, and leaves every other row of the table unchanged.
C23_UpdateFrameSequential ==
    [][\A p \in Procs :
         (calls[p].pc = "update.write" /\ calls'[p].pc = "update.reload" /\ ~overlapped) =>
             UpdateFrame(p)]_vars

\* Calls ran one at a time and an updatePost that names only some fields
\* has rewritten one of two stored rows.
C23_Witness ==
    /\ entity = "post" /\ ~overlapped
    /\ calls[1].op = "update" /\ calls[1].pc = "update.reload"
    /\ calls[1].data.key.k = "undefined"
    /\ Cardinality(table) = 2


----------------------------------------------------------------------------
\* The ids of the items of page k of a query, the table being as it is
PageIds(e, rows, o, k) ==
    LET items == findAll(e, rows, [o EXCEPT !.page = NumId(k)]).items
    IN  {items[i].id : i \in 1..Len(items)}

----------------------------------------------------------------------------
\* The most repository methods one service call invokes (update: findById,
\* exists, update)
MostRepositoryCalls(c) ==
    IF c.op = "update" THEN 3
    ELSE IF c.op \in {"create", "delete"} THEN 2
    ELSE 1

\* C25: every service call that starts eventually reaches exactly one
\* terminal outcome (a returned value or a raised failure) after a bounded
\* number of repository calls, provided every storage call it makes
\* completes or fails.
C25_EveryCallTerminates ==
    /\ \A p \in Procs : Running(calls[p]) ~> (calls[p].pc = "done")
    /\ [](\A p \in Procs :
            /\ Len(calls[p].log) <= MostRepositoryCalls(calls[p])
            /\ calls[p].pc = "done" <=> calls[p].outcome # "none")
    /\ [][\A p \in Procs :
            (calls[p].pc = "done" /\ ncalls' = ncalls) => calls'[p] = calls[p]]_vars

\* The last of the calls was an update that went through its three
\* repository calls and returned.
C25_Witness ==
    /\ Done(calls[1], "update") /\ calls[1].outcome = "ok"
    /\ Len(calls[1].log) = 3
    /\ ncalls = MaxCalls


----------------------------------------------------------------------------
\* A create, update or delete call that ended in a failure
FailedWrite(c) ==
    /\ c.pc = "done" /\ c.op \in {"create", "update", "delete"}
    /\ c.outcome # "ok"

\* C26, as claimed: whenever a create, update or delete service call ends in
\* a failure (validation, duplicate, not-found, invalid id, or a storage
\* failure at any repository step, including the reload after an insert or
\* update), the table holds exactly what it held before the call.
C26_FailedCallLeavesTable ==
    \A p \in Procs : FailedWrite(calls[p]) => table = calls[p].before

\* C26, amended: a call that fails before its INSERT, UPDATE or DELETE
\* statement has run leaves the table as it was before the call; the only
\* failure after the statement is a storage failure at the reload of a
\* create or update, and then the row written stays in the table and every
\* other row is as it was.
C26_FailureBeforeWriteLeavesTable ==
    \A p \in Procs :
        LET c == calls[p]
        IN  FailedWrite(c) =>
                IF c.rowId = 0
                THEN table = c.before
                ELSE /\ c.fault /\ c.op \in {"create", "update"}
                     /\ c.log[Len(c.log)].op = c.op
                     /\ HasRow(table, c.rowId)
                     /\ table # c.before
                     /\ {r \in table : r.id # c.rowId} = {r \in c.before : r.id # c.rowId}

\* An update wrote its row and then failed at the reload: the call ended in
\* a failure and the table is not what it was before the call.
C26_Witness ==
    /\ FailedWrite(calls[1]) /\ calls[1].op = "update"
    /\ calls[1].rowId # 0 /\ calls[1].fault
    /\ table # calls[1].before


----------------------------------------------------------------------------
\* A create call that passed the exists check and went on to
\* repository.create
PassedExists(c) == c.op = "create" /\ Invoked(c, "create")

\* The INSERT of call p on a table with a unique index: it succeeds only
\* when no row holds its key, and then leaves one such row; when a row holds
\* the key the call ends in the repository's failure and the table is as it
\* was
InsertRespectsUniqueIndex(p) ==
    LET key == calls[p].cols[1].key.s
    IN  (/\ entity \in {"keyword", "subreddit"}
         /\ calls[p].pc = "create.insert" /\ calls'[p] # calls[p]
         /\ calls[p].cols[1].key.k = "string") =>
            IF WhereKey(table, key) = {}
            THEN calls'[p].pc = "create.reload" =>
                     Cardinality(WhereKey(table', key)) = 1
            ELSE /\ calls'[p].pc = "done" /\ calls'[p].outcome = "Repository"
                 /\ table' = table

----------------------------------------------------------------------------
\* Call p ends with the deletion-failed error in this step
DeletionFails(p) ==
    calls[p].outcome # "DeleteFailed" /\ calls'[p].outcome = "DeleteFailed"

\* C28: the deletion-failed error is unreachable when calls run one at a
\* time; it occurs only if another call removed the same row between the
\* delete call's lookup and its repository delete.
C28_DeletionFailedNeedsInterleaving ==
    /\ [](\A p \in Procs :
            /\ calls[p].outcome = "DeleteFailed" => overlapped
            /\ (calls[p].pc = "delete.del" /\ ~overlapped) => HasRow(table, calls[p].id.n))
    /\ [][\A p \in Procs :
            DeletionFails(p) =>
                /\ calls[p].pc = "delete.del" /\ Invoked(calls[p], "delete")
                /\ ~HasRow(table, calls[p].id.n)
                /\ table' = table]_vars

\* Two deletes of the same row both found it; the first removed it and
\* returned, the second then failed with the deletion-failed error.
C28_Witness ==
    /\ Done(calls[1], "delete") /\ calls[1].outcome = "ok"
    /\ Done(calls[2], "delete") /\ calls[2].outcome = "DeleteFailed"
    /\ calls[1].id = calls[2].id
    /\ calls[1].rowId = calls[2].id.n
    /\ overlapped

=============================================================================
